---- MODULE Spec2Model ----
(***************************************************************************)
(* A model of the invoice generator (src/invoice_generator.py) and of the  *)
(* web handler that feeds it (src/app.py).                                 *)
(*                                                                         *)
(* Numbers.  A Decimal is an integer count of a fixed unit: a quantity in  *)
(* tenths, a unit price and every amount in cents (hundredths), a VAT rate *)
(* in whole percent, the input of format_currency in thousandths.  A       *)
(* length is an integer count of tenths of a millimetre (the code's        *)
(* 4 * mm is 40); the comparisons of the layout are exact.                 *)
(*                                                                         *)
(* Text.  A string is a sequence of one-character strings; "" is << >>.    *)
(***************************************************************************)
EXTENDS Integers, Sequences, FiniteSets, TLC

VARIABLES
    pc,             \* where the caller stands: "input", then "done"
    items,          \* Invoice.items: sequence of InvoiceItem records
    vat_mode,       \* Invoice.vat_mode
    language,       \* Invoice.language, also the locale of the formatters
    shown,          \* what a reader of the Invoice properties got (once pc = "done")
    amount,         \* format_currency: the amount argument, in thousandths
    formatted,      \* format_currency: the returned string (once pc = "done")
    address,        \* an Address record
    addr_lines,     \* Address.to_lines(): the returned list (once pc = "done")
    description,    \* the description handed to textwrap.wrap
    wrap_width,     \* LayoutConfig.description_wrap_width
    rows,           \* the wrapped rows of the description (once pc = "done")
    layout,         \* InvoicePDFGenerator.layout: a LayoutConfig
    issuer,         \* Invoice.issuer
    client,         \* Invoice.client
    notes,          \* Invoice.metadata.notes
    payment,        \* Invoice.payment
    gen,            \* the InvoicePDFGenerator instance: _y, _page_number,
                    \* _table_top_y, _table_bottom_y and the commands its
                    \* canvas has received
    item_ix,        \* _render_items_table: the item the loop stands at
    line_ix,        \* _render_table_item: the wrapped line the loop stands at
    first_line,     \* _render_table_item: its local first_line
    metadata,       \* Invoice.metadata: number, date, service_date, due_days
                    \* (a date is a day number, None is 0)
    logo,           \* Invoice.logo_path: "none", or what is at the path
    warnings,       \* what Invoice.validate() returned to generate()
    calls_left,     \* the generate() calls the caller still makes on gen
    position,       \* one entry of the caller's item data, as received
    built,          \* what the item construction made of position
    now,            \* the server's clock, in seconds
    files,          \* the files under /tmp: records of a path and of the
                    \* request whose document the file holds
    requests        \* the /generate requests in flight

moneyVars == <<items, vat_mode, shown>>
fmtVars == <<amount, formatted>>
addrVars == <<address, addr_lines>>
wrapVars == <<description, wrap_width, rows>>
invoiceVars == <<layout, issuer, client, metadata, logo, notes, payment>>
loopVars == <<item_ix, line_ix, first_line>>
runVars == <<warnings, calls_left>>
layoutVars == <<invoiceVars, gen, loopVars, runVars>>
parseVars == <<position, built>>
serverVars == <<now, files, requests>>
vars == <<pc, moneyVars, language, fmtVars, addrVars, wrapVars, layoutVars,
          parseVars, serverVars>>

NoTotals == [net |-> <<>>, vat |-> <<>>, gross |-> <<>>, subtotal |-> 0,
             total_vat |-> 0, total |-> 0, vat_summary |-> <<>>]

(***************************************************************************)
(* Bounds of the model.                                                    *)
(***************************************************************************)
MaxItems == 2
MaxMilli == 25

(***************************************************************************)
(* Enums (src/invoice_generator.py:37-47).                                 *)
(***************************************************************************)
VATMode == {"NONE", "INCLUSIVE", "EXCLUSIVE"}
Language == {"DE", "EN"}

(***************************************************************************)
(* Small helpers on integers and sequences.                                *)
(***************************************************************************)
Abs(n) == IF n < 0 THEN -n ELSE n

RECURSIVE SumSeq(_)
SumSeq(s) == IF s = <<>> THEN 0 ELSE s[1] + SumSeq(Tail(s))

RECURSIVE Concat(_)
Concat(ss) == IF ss = <<>> THEN <<>> ELSE ss[1] \o Concat(Tail(ss))

Range(s) == {s[i] : i \in 1..Len(s)}

(***************************************************************************)
(* Decimal.quantize(Decimal("0.01"), rounding=ROUND_HALF_UP) of the value  *)
(* n / d cents: the discarded digits round the magnitude up when they are  *)
(* at least one half, and the sign is kept.                                *)
(***************************************************************************)
quantize_half_even(n, d) ==
    LET a == Abs(n)
        q == a \div d
        r == a % d
        up == IF 2 * r > d THEN 1
              ELSE IF 2 * r = d THEN q % 2
              ELSE 0
    IN  IF n < 0 THEN -(q + up) ELSE q + up

quantize(n, d) ==
    LET a == Abs(n)
        q == a \div d
        r == a % d
        up == IF 2 * r >= d THEN 1 ELSE 0
    IN  IF n < 0 THEN -(q + up) ELSE q + up

(***************************************************************************)
(* InvoiceItem: the derived amounts.                                       *)
(***************************************************************************)
InvoiceItem(desc, q, p, rate) ==
    [description |-> desc, quantity |-> q, unit_price |-> p, vat_rate |-> rate]

net_amount(item) == quantize(item.quantity * item.unit_price, 10)

vat_amount(item) == quantize(net_amount(item) * item.vat_rate, 100)

gross_amount(item) == net_amount(item) + vat_amount(item)

(***************************************************************************)
(* Invoice: the derived totals.  sum(..., Decimal("0")) adds from the left.*)
(***************************************************************************)
RECURSIVE subtotal_raw(_)
subtotal_raw(its) ==
    IF its = <<>> THEN 0
    ELSE subtotal_raw(SubSeq(its, 1, Len(its) - 1))
         + its[Len(its)].quantity * its[Len(its)].unit_price

subtotal_round_of_sum(its) == quantize(subtotal_raw(its), 10)

RECURSIVE subtotal(_)
subtotal(its) ==
    IF its = <<>> THEN 0
    ELSE subtotal(SubSeq(its, 1, Len(its) - 1)) + net_amount(its[Len(its)])

RECURSIVE total_vat(_)
total_vat(its) ==
    IF its = <<>> THEN 0
    ELSE total_vat(SubSeq(its, 1, Len(its) - 1)) + vat_amount(its[Len(its)])

total_always_with_vat(its, mode) == subtotal(its) + total_vat(its)

total(its, mode) ==
    IF mode = "NONE" THEN subtotal(its)
    ELSE subtotal(its) + total_vat(its)

(***************************************************************************)
(* Invoice.vat_summary: a dict, i.e. an insertion-ordered mapping; here a  *)
(* sequence of [rate, amount] entries in the order the keys were inserted. *)
(***************************************************************************)
summary_add(summary, item) ==
    IF item.vat_rate > 0
    THEN IF \E k \in 1..Len(summary) : summary[k].rate = item.vat_rate
         THEN [k \in 1..Len(summary) |->
                 IF summary[k].rate = item.vat_rate
                 THEN [summary[k] EXCEPT !.amount = @ + vat_amount(item)]
                 ELSE summary[k]]
         ELSE Append(summary, [rate |-> item.vat_rate, amount |-> vat_amount(item)])
    ELSE summary

RECURSIVE vat_summary(_)
vat_summary(its) ==
    IF its = <<>> THEN <<>>
    ELSE summary_add(vat_summary(SubSeq(its, 1, Len(its) - 1)), its[Len(its)])

(***************************************************************************)
(* format_currency.  f"{int_part:,}" groups the digits in threes from the  *)
(* right with ","; f"{dec_part:02d}" pads to two digits.  For a Decimal,   *)
(* f"{amount:,.2f}" writes the sign of the Decimal (quantize keeps the     *)
(* sign of its operand, so -0.004 becomes -0.00), the grouped integer      *)
(* digits, "." and two fractional digits.                                  *)
(***************************************************************************)
Currency == <<"€">>

DigitChars == <<"0", "1", "2", "3", "4", "5", "6", "7", "8", "9">>

RECURSIVE int_to_str(_)
int_to_str(n) ==
    IF n < 10 THEN <<DigitChars[n + 1]>>
    ELSE int_to_str(n \div 10) \o <<DigitChars[(n % 10) + 1]>>

two_digits(n) == <<DigitChars[(n \div 10) + 1], DigitChars[(n % 10) + 1]>>

three_digits(n) == <<DigitChars[(n \div 100) + 1]>> \o two_digits(n % 100)

RECURSIVE grouped(_)
grouped(n) ==
    IF n < 1000 THEN int_to_str(n)
    ELSE grouped(n \div 1000) \o <<",">> \o three_digits(n % 1000)

replace(s, old, new) == [i \in 1..Len(s) |-> IF s[i] = old THEN new ELSE s[i]]

int_str_keeps_commas(int_part) == grouped(int_part)

int_str(int_part) == replace(grouped(int_part), ",", ".")

format_fixed2(neg, cents) ==
    (IF neg THEN <<"-">> ELSE <<>>)
        \o grouped(Abs(cents) \div 100) \o <<".">>
        \o two_digits(Abs(cents) % 100)

format_currency(amt, currency, locale) ==
    LET cents == quantize(amt, 10)
    IN  IF locale = "DE"
        THEN LET sign == IF cents < 0 THEN <<"-">> ELSE <<>>
                 a == Abs(cents)
                 int_part == a \div 100
                 dec_part == a % 100
             IN  sign \o int_str(int_part) \o <<",">> \o two_digits(dec_part)
                      \o <<" ">> \o currency
        ELSE currency \o format_fixed2(amt < 0, cents)

(***************************************************************************)
(* The inputs: the items a caller may build an invoice from, and the       *)
(* amounts handed to format_currency.                                      *)
(***************************************************************************)
Quantities == {-5, 5, 15}
UnitPrices == {1, 3, 100}
VatRates == {-19, 0, 5, 19}

ItemPool ==
    {InvoiceItem(<<>>, q, p, r) : q \in Quantities, p \in UnitPrices, r \in VatRates}

BigAmounts == {1234500, -2005, 999995, -1234567, 1000000000}

AmountPool == (-MaxMilli..MaxMilli) \cup BigAmounts

NoAddress == [name |-> <<>>, street |-> <<>>, postal_code |-> <<>>,
              city |-> <<>>, country |-> <<>>, additional_lines |-> <<>>]

(***************************************************************************)
(* The invoice data model: a caller builds the item list, then reads the   *)
(* derived properties.                                                     *)
(***************************************************************************)
(***************************************************************************)
(* LayoutConfig, lengths in tenths of a millimetre; the parties of an      *)
(* invoice; the generator as __init__ leaves it.                           *)
(***************************************************************************)
DefaultLayout ==
    [margin_top |-> 150, margin_bottom |-> 200, logo_height |-> 500,
     line_height |-> 40, section_gap |-> 80, table_row_height |-> 50,
     description_wrap_width |-> 55, page_break_threshold |-> 400]

NoIssuer == [address |-> NoAddress, phone |-> <<>>, email |-> <<>>,
             website |-> <<>>, tax_number |-> <<>>, vat_id |-> <<>>]

NoClient == [address |-> NoAddress]

NoPayment == [account_holder |-> <<>>, iban |-> <<>>, bic |-> <<>>,
              bank_name |-> <<>>, payment_reference |-> <<>>]

NoMetadata == [number |-> <<>>, date |-> 1, service_date |-> 1, due_days |-> 14]

NewGenerator ==
    [y |-> 0, page_number |-> 0, table_top_y |-> 0, table_bottom_y |-> 0,
     canvas |-> <<>>]

NoPosition == [description |-> <<>>, quantity |-> <<>>, unit_price |-> <<>>]

(* a parsed Decimal: its digits as an integer and its number of decimal places *)
Dec(coeff, places) == [coeff |-> coeff, places |-> places]

NotBuilt == [outcome |-> "none", quantity |-> Dec(0, 0), unit_price |-> Dec(0, 0)]

ParseIdle == position = NoPosition /\ built = NotBuilt

ServerIdle == now = 0 /\ files = {} /\ requests = <<>>

LayoutIdle ==
    /\ layout = DefaultLayout
    /\ issuer = NoIssuer
    /\ client = NoClient
    /\ notes = <<>>
    /\ payment = NoPayment
    /\ metadata = NoMetadata
    /\ logo = "none"
    /\ gen = NewGenerator
    /\ item_ix = 1
    /\ line_ix = 1
    /\ first_line = TRUE
    /\ warnings = <<>>
    /\ calls_left = 0
    /\ ParseIdle
    /\ ServerIdle

(* The components a specification does not exercise stay as constructed. *)
FormatIdle == amount = 0 /\ formatted = <<>>

AddressIdle == address = NoAddress /\ addr_lines = <<>>

WrapIdle == description = <<>> /\ wrap_width = 1 /\ rows = <<>>

InitMoney ==
    /\ pc = "input"
    /\ items = <<>>
    /\ vat_mode \in VATMode
    /\ language = "DE"
    /\ shown = NoTotals
    /\ FormatIdle
    /\ AddressIdle
    /\ WrapIdle
    /\ LayoutIdle

AddItem ==
    /\ pc = "input"
    /\ Len(items) < MaxItems
    /\ \E it \in ItemPool : items' = Append(items, it)
    /\ UNCHANGED <<pc, vat_mode, shown, language, fmtVars, addrVars, wrapVars, layoutVars, parseVars, serverVars>>

ReadTotals ==
    /\ pc = "input"
    /\ pc' = "done"
    /\ shown' = [net |-> [i \in 1..Len(items) |-> net_amount(items[i])],
                 vat |-> [i \in 1..Len(items) |-> vat_amount(items[i])],
                 gross |-> [i \in 1..Len(items) |-> gross_amount(items[i])],
                 subtotal |-> subtotal(items),
                 total_vat |-> total_vat(items),
                 total |-> total(items, vat_mode),
                 vat_summary |-> vat_summary(items)]
    /\ UNCHANGED <<items, vat_mode, language, fmtVars, addrVars, wrapVars, layoutVars, parseVars, serverVars>>

NextMoney == AddItem \/ ReadTotals

SpecMoney == InitMoney /\ [][NextMoney]_vars

(***************************************************************************)
(* format_currency applied to one amount in one locale.                    *)
(***************************************************************************)
MoneyIdle == items = <<>> /\ vat_mode = "NONE" /\ shown = NoTotals

InitFormat ==
    /\ pc = "input"
    /\ MoneyIdle
    /\ language \in Language
    /\ amount \in AmountPool
    /\ formatted = <<>>
    /\ AddressIdle
    /\ WrapIdle
    /\ LayoutIdle

FormatCurrency ==
    /\ pc = "input"
    /\ pc' = "done"
    /\ formatted' = format_currency(amount, Currency, language)
    /\ UNCHANGED <<moneyVars, language, amount, addrVars, wrapVars, layoutVars, parseVars, serverVars>>

NextFormat == FormatCurrency

SpecFormat == InitFormat /\ [][NextFormat]_vars

(***************************************************************************)
(* Round-half-up as the specification defines it: the multiple of the unit *)
(* nearest to n / d, an exact half going away from zero.                   *)
(***************************************************************************)
RoundHalfUp(n, d) ==
    CHOOSE r \in ((n \div d) - 1)..((n \div d) + 1) :
        /\ 2 * Abs(r * d - n) <= d
        /\ 2 * Abs(r * d - n) = d => Abs(r * d) > Abs(n)

IsExactHalf(n, d) == 2 * (Abs(n) % d) = d

(* C1: every item's net amount is quantity * unit price rounded half-up to
   cents, its VAT amount is net * rate / 100 rounded half-up to cents, and
   its gross amount is exactly net + VAT. *)
C1_ItemAmounts ==
    pc = "done" =>
        \A i \in 1..Len(items) :
            /\ shown.net[i] = RoundHalfUp(items[i].quantity * items[i].unit_price, 10)
            /\ shown.vat[i] = RoundHalfUp(shown.net[i] * items[i].vat_rate, 100)
            /\ shown.gross[i] = shown.net[i] + shown.vat[i]

C1_Witness ==
    /\ pc = "done"
    /\ \E i \in 1..Len(items) :
          /\ items[i].quantity * items[i].unit_price < 0
          /\ IsExactHalf(items[i].quantity * items[i].unit_price, 10)
          /\ shown.net[i] * 10 < items[i].quantity * items[i].unit_price
    /\ \E i \in 1..Len(items) :
          /\ items[i].vat_rate < 0
          /\ IsExactHalf(shown.net[i] * items[i].vat_rate, 100)
          /\ shown.vat[i] # 0

(* C2: the subtotal is the sum of the items' rounded net amounts, the total
   VAT the sum of their rounded VAT amounts, and the total is the subtotal
   in VAT mode NONE and subtotal + total VAT in the other two modes. *)
C2_Totals ==
    pc = "done" =>
        LET nets == [i \in 1..Len(items) |->
                        RoundHalfUp(items[i].quantity * items[i].unit_price, 10)]
            vats == [i \in 1..Len(items) |->
                        RoundHalfUp(nets[i] * items[i].vat_rate, 100)]
        IN  /\ shown.subtotal = SumSeq(nets)
            /\ shown.total_vat = SumSeq(vats)
            /\ vat_mode = "NONE" => shown.total = SumSeq(nets)
            /\ vat_mode # "NONE" => shown.total = SumSeq(nets) + SumSeq(vats)

C2_Witness ==
    /\ pc = "done"
    /\ Len(items) >= 2
    /\ vat_mode = "NONE"
    /\ shown.total_vat # 0
    /\ shown.total = shown.subtotal
    /\ shown.subtotal # RoundHalfUp(subtotal_raw(items), 10)

(* C3: the values of vat_summary add up to total_vat exactly, and its keys
   are exactly the rates greater than 0 that occur among the items. *)
C3_SummaryAddsUpToTotalVat ==
    pc = "done" =>
        /\ SumSeq([k \in 1..Len(shown.vat_summary) |-> shown.vat_summary[k].amount])
               = shown.total_vat
        /\ {shown.vat_summary[k].rate : k \in 1..Len(shown.vat_summary)}
               = {items[i].vat_rate : i \in {j \in 1..Len(items) : items[j].vat_rate > 0}}

IsDigit(c) == \E k \in 1..10 : DigitChars[k] = c

DigitValue(c) == (CHOOSE k \in 1..10 : DigitChars[k] = c) - 1

RECURSIVE DigitsValue(_)
DigitsValue(s) ==
    IF s = <<>> THEN 0
    ELSE IF IsDigit(s[Len(s)])
         THEN 10 * DigitsValue(SubSeq(s, 1, Len(s) - 1)) + DigitValue(s[Len(s)])
         ELSE DigitsValue(SubSeq(s, 1, Len(s) - 1))

(* The DE rendering of an amount of `cents` cents: an optional "-", the
   integer digits in groups of three separated by ".", ",", two fractional
   digits, one space, the currency symbol. *)
IsGermanCurrencyString(s, cents) ==
    LET body == IF s # <<>> /\ s[1] = "-" THEN Tail(s) ELSE s
        m == Len(body)
        int == SubSeq(body, 1, m - 5)
        k == Len(int)
    IN  /\ m >= 6
        /\ (s[1] = "-") <=> (cents < 0)
        /\ body[m] = Currency[1]
        /\ body[m - 1] = " "
        /\ IsDigit(body[m - 2])
        /\ IsDigit(body[m - 3])
        /\ body[m - 4] = ","
        /\ \A i \in 1..k :
              IF (k - i + 1) % 4 = 0 THEN int[i] = "." ELSE IsDigit(int[i])
        /\ int[1] = "0" => k = 1
        /\ 100 * DigitsValue(int) + DigitsValue(<<body[m - 3], body[m - 2]>>)
               = Abs(cents)

(* C4: in the DE locale format_currency renders the amount rounded half-up
   to cents, with "." between groups of three integer digits, "," before
   exactly two fractional digits, and the symbol after one space. *)
C4_GermanFormat ==
    (pc = "done" /\ language = "DE") =>
        IsGermanCurrencyString(formatted, RoundHalfUp(amount, 10))

C4_Witness ==
    \/ /\ amount = 1234500
       /\ formatted = <<"1", ".", "2", "3", "4", ",", "5", "0", " ">> \o Currency
    \/ /\ amount = -2005
       /\ formatted = <<"-", "2", ",", "0", "1", " ">> \o Currency

(* C5: an amount that is negative after rounding to cents is rendered with
   the minus sign as the first character, in the DE locale and in every
   other locale. *)
C5_LeadingMinus ==
    (pc = "done" /\ RoundHalfUp(amount, 10) < 0) => formatted[1] = "-"

(***************************************************************************)
(* Address.to_lines.  A string is true when it is not empty; str.strip()   *)
(* drops the whitespace at both ends.                                      *)
(***************************************************************************)
MaxExtraLines == 2

IsSpace(c) == c \in {" ", "\t"}

RECURSIVE lstrip(_)
lstrip(s) == IF s # <<>> /\ IsSpace(s[1]) THEN lstrip(Tail(s)) ELSE s

RECURSIVE rstrip(_)
rstrip(s) ==
    IF s # <<>> /\ IsSpace(s[Len(s)]) THEN rstrip(SubSeq(s, 1, Len(s) - 1)) ELSE s

strip(s) == lstrip(rstrip(s))

to_lines(a) ==
    LET l1 == IF a.street # <<>> THEN <<a.street>> ELSE <<>>
        l2 == IF a.postal_code # <<>> \/ a.city # <<>>
              THEN Append(l1, strip(a.postal_code \o <<" ">> \o a.city))
              ELSE l1
        l3 == IF a.country # <<>> THEN Append(l2, a.country) ELSE l2
    IN  l3 \o a.additional_lines

SeqsUpTo(S, n) == UNION {[1..k -> S] : k \in 0..n}

Streets == {<<>>, <<"S">>}
PostalCodes == {<<>>, <<" ">>, <<"1">>}
Cities == {<<>>, <<"C">>}
Countries == {<<>>, <<"D">>}
ExtraLines == {<<>>, <<"x">>}

InitAddress ==
    /\ pc = "input"
    /\ MoneyIdle
    /\ language = "DE"
    /\ FormatIdle
    /\ address \in [name : {<<"N">>}, street : Streets, postal_code : PostalCodes, city : Cities,
                    country : Countries,
                    additional_lines : SeqsUpTo(ExtraLines, MaxExtraLines)]
    /\ addr_lines = <<>>
    /\ WrapIdle
    /\ LayoutIdle

ToLines ==
    /\ pc = "input"
    /\ pc' = "done"
    /\ addr_lines' = to_lines(address)
    /\ UNCHANGED <<moneyVars, language, fmtVars, address, wrapVars, layoutVars, parseVars, serverVars>>

NextAddress == ToLines

SpecAddress == InitAddress /\ [][NextAddress]_vars

NonEmpty(s) == s # <<>>

(* C10: to_lines() returns only non-empty lines: the non-empty ones among
   street, "postal_code city", country and the extra lines, in this order;
   an address with no field set yields the empty sequence. *)
C10_OnlyNonEmptyLines ==
    pc = "done" =>
        /\ \A i \in 1..Len(addr_lines) : addr_lines[i] # <<>>
        /\ addr_lines =
              SelectSeq(<<address.street,
                          strip(address.postal_code \o <<" ">> \o address.city),
                          address.country>> \o address.additional_lines,
                        NonEmpty)
        /\ address = NoAddress => addr_lines = <<>>

(***************************************************************************)
(* textwrap.wrap(text, width) with the defaults of TextWrapper: tabs are   *)
(* expanded to 8-column stops and every whitespace character becomes a     *)
(* space; the text is split into chunks, runs of spaces and words; lines   *)
(* are filled chunk by chunk, whitespace at the start of a line (but the   *)
(* first) and at the end of a line is dropped, and a chunk longer than the *)
(* width is cut.  The alphabet has no hyphen, so a word is one chunk.      *)
(***************************************************************************)
TabSize == 8

MaxDescLen == 5
MaxWrapWidth == 3

Alphabet == {"a", "b", " ", "\t"}

RECURSIVE expandtabs(_, _)
expandtabs(s, col) ==
    IF s = <<>> THEN <<>>
    ELSE IF s[1] = "\t"
         THEN LET n == TabSize - (col % TabSize)
              IN  [i \in 1..n |-> " "] \o expandtabs(Tail(s), col + n)
         ELSE <<s[1]>> \o expandtabs(Tail(s), col + 1)

munge_whitespace(text) == expandtabs(text, 0)

RECURSIVE run_length(_)
run_length(s) ==
    IF Len(s) >= 2 /\ IsSpace(s[1]) = IsSpace(s[2])
    THEN 1 + run_length(Tail(s))
    ELSE 1

RECURSIVE split_chunks(_)
split_chunks(s) ==
    IF s = <<>> THEN <<>>
    ELSE LET n == run_length(s)
         IN  <<SubSeq(s, 1, n)>> \o split_chunks(SubSeq(s, n + 1, Len(s)))

IsBlank(chunk) == \A i \in 1..Len(chunk) : IsSpace(chunk[i])

RECURSIVE fitting(_, _)
fitting(chunks, width) ==
    IF chunks # <<>> /\ Len(chunks[1]) <= width
    THEN 1 + fitting(Tail(chunks), width - Len(chunks[1]))
    ELSE 0

long_word_end(chunk, space_left) == space_left

RECURSIVE wrap_chunks(_, _, _)
wrap_chunks(chunks, lines, width) ==
    IF chunks = <<>> THEN lines
    ELSE LET start == IF IsBlank(chunks[1]) /\ lines # <<>>
                      THEN Tail(chunks) ELSE chunks
             k == fitting(start, width)
             cur == SubSeq(start, 1, k)
             rest == SubSeq(start, k + 1, Len(start))
             cur_len == Len(Concat(cur))
             long == rest # <<>> /\ Len(rest[1]) > width
             end == long_word_end(rest[1], width - cur_len)
             cur2 == IF long THEN Append(cur, SubSeq(rest[1], 1, end)) ELSE cur
             rest2 == IF long
                      THEN <<SubSeq(rest[1], end + 1, Len(rest[1]))>> \o Tail(rest)
                      ELSE rest
             cur3 == IF cur2 # <<>> /\ IsBlank(cur2[Len(cur2)])
                     THEN SubSeq(cur2, 1, Len(cur2) - 1) ELSE cur2
         IN  wrap_chunks(rest2,
                         IF cur3 # <<>> THEN Append(lines, Concat(cur3)) ELSE lines,
                         width)

wrap(text, width) == wrap_chunks(split_chunks(munge_whitespace(text)), <<>>, width)

wrapped_truncated(text, width) ==
    LET t == munge_whitespace(text)
    IN  << SubSeq(t, 1, IF Len(t) < width THEN Len(t) ELSE width) >>

wrapped(text, width) ==
    IF wrap(text, width) = <<>> THEN << <<>> >> ELSE wrap(text, width)

InitWrap ==
    /\ pc = "input"
    /\ MoneyIdle
    /\ language = "DE"
    /\ FormatIdle
    /\ AddressIdle
    /\ description \in SeqsUpTo(Alphabet, MaxDescLen)
    /\ wrap_width \in 1..MaxWrapWidth
    /\ rows = <<>>
    /\ LayoutIdle

WrapDescription ==
    /\ pc = "input"
    /\ pc' = "done"
    /\ rows' = wrapped(description, wrap_width)
    /\ UNCHANGED <<moneyVars, language, fmtVars, addrVars, description, wrap_width, layoutVars, parseVars, serverVars>>

NextWrap == WrapDescription

SpecWrap == InitWrap /\ [][NextWrap]_vars

NotSpace(c) == ~IsSpace(c)

NonSpaceChars(s) == SelectSeq(s, NotSpace)

(* C9, as stated: a description longer than the wrap width is rendered as
   more than one row, no row is longer than the wrap width, no
   non-whitespace character is dropped, and a description at most the wrap
   width long is rendered as exactly one row. *)
C9_LongerThanWidthWraps ==
    pc = "done" =>
        /\ Len(description) > wrap_width => Len(rows) > 1
        /\ \A i \in 1..Len(rows) : Len(rows[i]) <= wrap_width
        /\ NonSpaceChars(Concat(rows)) = NonSpaceChars(description)
        /\ Len(description) <= wrap_width => Len(rows) = 1

(* C9, amended: a description whose text from its first to its last
   non-whitespace character is longer than the wrap width is rendered as
   more than one row, no row is longer than the wrap width, no
   non-whitespace character is dropped, and a description at most the wrap
   width long that holds no tab is rendered as exactly one row. *)
C9_WrapsWithoutTruncation ==
    pc = "done" =>
        /\ Len(strip(description)) > wrap_width => Len(rows) > 1
        /\ \A i \in 1..Len(rows) : Len(rows[i]) <= wrap_width
        /\ NonSpaceChars(Concat(rows)) = NonSpaceChars(description)
        /\ (Len(description) <= wrap_width /\ "\t" \notin Range(description))
               => Len(rows) = 1

C9_Witness ==
    /\ pc = "done"
    /\ Len(strip(description)) > wrap_width
    /\ " " \in Range(strip(description))
    /\ Len(rows) = 3
    /\ \E i \in 1..Len(rows) : Len(rows[i]) = wrap_width /\ wrap_width > 1

(***************************************************************************)
(* InvoicePDFGenerator.  A generator g is the record of its cursor fields  *)
(* and of the commands its canvas received.  A command records its kind,   *)
(* the page it is drawn on, its y (for a vertical line its upper end y and *)
(* its lower end y2) and, for an item row, the item and its wrapped line   *)
(* (for a VAT line of the totals, the rate in place of the item).          *)
(* The four labels of the table header are one command, and so are the     *)
(* three vertical lines of one call.                                       *)
(***************************************************************************)
PageHeight == 2970

MaxTableItems == 3

Times(x, tenths) == (x * tenths) \div 10

Command(g, kind, y, y2, item, line) ==
    [kind |-> kind, page |-> g.page_number, y |-> y, y2 |-> y2,
     item |-> item, line |-> line]

draw(g, kind, y) ==
    [g EXCEPT !.canvas = Append(@, Command(g, kind, y, y, 0, 0))]

draw_line(g, kind, y, y2) ==
    [g EXCEPT !.canvas = Append(@, Command(g, kind, y, y2, 0, 0))]

draw_cell(g, kind, item, line) ==
    [g EXCEPT !.canvas = Append(@, Command(g, kind, g.y, g.y, item, line))]

move(g, dy) == [g EXCEPT !.y = @ - dy]

RECURSIVE draw_lines(_, _, _, _)
(* n lines of one kind, the first at y, each dy below the one before *)
draw_lines(g, kind, n, dy) ==
    IF n = 0 THEN g ELSE draw_lines(move(draw(g, kind, g.y), dy), kind, n - 1, dy)

render_page_number(g, L) == draw(g, "page_number", L.margin_bottom \div 2)

start_new_page(g, L) ==
    LET g1 == IF g.page_number > 0 THEN draw(g, "showPage", 0) ELSE g
        g2 == [g1 EXCEPT !.page_number = @ + 1, !.y = PageHeight - L.margin_top]
    IN  IF g2.page_number > 1 THEN render_page_number(g2, L) ELSE g2

NonEmptyCount(fields) == Len(SelectSeq(fields, NonEmpty))

(* Invoice.logo_path: None, a path where no file is, a file that
   ImageReader or drawImage cannot take, a readable image *)
Logos == {"none", "missing", "unreadable", "ok"}

(* the logo is tried only for a path that exists; what the try block
   raises is caught and printed *)
draw_logo(g, L, lg) ==
    IF lg = "ok" THEN draw(g, "logo", g.y - L.logo_height + 80) ELSE g

render_header_inside_try(g, L, iss, lg) ==
    IF lg = "unreadable" THEN g
    ELSE LET g0 == draw_logo(g, L, lg)
             g1 == draw(g0, "issuer_name", g.y)
             n == Len(to_lines(iss.address))
                  + NonEmptyCount(<<iss.phone, iss.email, iss.website,
                                    iss.tax_number, iss.vat_id>>)
             g2 == draw_lines(move(g1, L.line_height), "issuer_line", n,
                              Times(L.line_height, 8))
         IN  [g2 EXCEPT !.y = g.y - (L.logo_height + Times(L.section_gap, 5))]

render_header(g, L, iss, lg) ==
    LET g0 == draw_logo(g, L, lg)
        g1 == draw(g0, "issuer_name", g.y)
        n == Len(to_lines(iss.address))
             + NonEmptyCount(<<iss.phone, iss.email, iss.website,
                               iss.tax_number, iss.vat_id>>)
        g2 == draw_lines(move(g1, L.line_height), "issuer_line", n,
                         Times(L.line_height, 8))
    IN  [g2 EXCEPT !.y = g.y - (L.logo_height + Times(L.section_gap, 5))]

render_invoice_info(g, L) ==
    LET g1 == move(draw(g, "title", g.y), Times(L.section_gap, 8))
        g2 == move(draw(g1, "invoice_number", g1.y), L.line_height)
        g3 == move(draw(g2, "invoice_date", g2.y), L.line_height)
    IN  move(draw(g3, "service_date", g3.y), L.section_gap)

render_client_info(g, L, cl) ==
    LET g1 == move(draw(g, "bill_to", g.y), Times(L.line_height, 12))
        g2 == move(draw(g1, "client_name", g1.y), Times(L.line_height, 8))
        g3 == draw_lines(g2, "client_line", Len(to_lines(cl.address)),
                         Times(L.line_height, 8))
    IN  move(g3, Times(L.section_gap, 5))

render_table_header(g) ==
    LET header_top_y == g.y
        g1 == move(g, 50)
        g2 == move(draw(g1, "table_header", g1.y), 40)
        g3 == draw_line(g2, "header_rule", g2.y, g2.y)
        g4 == move(draw_line(g3, "header_vlines", header_top_y, g3.y), 50)
    IN  [g4 EXCEPT !.table_top_y = g4.y + 50]

draw_table_lines(g) == draw_line(g, "vlines", g.table_top_y, g.table_bottom_y + 20)

page_break_needed_above_margin(g, L) ==
    g.y - L.margin_bottom < L.page_break_threshold

page_break_needed(g, L) == g.y < L.page_break_threshold

break_table_page_without_header(g, L) ==
    LET g1 == start_new_page(draw_table_lines(g), L)
    IN  [g1 EXCEPT !.table_top_y = g1.y]

break_table_page(g, L) ==
    LET g1 == start_new_page(draw_table_lines(g), L)
    IN  render_table_header([g1 EXCEPT !.table_top_y = g1.y])

draw_item_line_numbers_always(g, item, line, first) ==
    draw_cell(draw_cell(draw_cell(draw_cell(g, "desc", item, line),
                                  "qty", item, line),
                        "price", item, line),
              "amount", item, line)

draw_item_line(g, item, line, first) ==
    LET g1 == draw_cell(g, "desc", item, line)
    IN  IF first
        THEN draw_cell(draw_cell(draw_cell(g1, "qty", item, line),
                                 "price", item, line),
                       "amount", item, line)
        ELSE g1

render_table_item_line_breaking_again(g, L, item, line, first) ==
    LET g1 == IF page_break_needed(g, L) THEN break_table_page(g, L) ELSE g
        g2 == IF page_break_needed(g1, L) THEN break_table_page(g1, L) ELSE g1
    IN  move(draw_item_line(g2, item, line, first), L.table_row_height)

(* one pass of the loop over the wrapped lines *)
render_table_item_line(g, L, item, line, first) ==
    LET g1 == IF page_break_needed(g, L) THEN break_table_page(g, L) ELSE g
    IN  move(draw_item_line(g1, item, line, first), L.table_row_height)

RECURSIVE draw_vat_lines(_, _, _)
(* one line per entry of vat_summary, in its order; the command of a VAT
   line carries the rate in its item field *)
draw_vat_lines(g, L, summary) ==
    IF summary = <<>> THEN g
    ELSE draw_vat_lines(move(draw_cell(g, "vat", summary[1].rate, 0), L.line_height),
                        L, Tail(summary))

render_totals_whenever_vat_mode(g, L, its, mode) ==
    LET g0 == move(g, Times(L.section_gap, 5))
        g1 == IF mode # "NONE"
              THEN draw_vat_lines(move(draw(g0, "subtotal", g0.y), L.line_height),
                                  L, vat_summary(its))
              ELSE g0
    IN  move(draw(g1, "total", g1.y), L.section_gap)

render_totals(g, L, its, mode) ==
    LET g0 == move(g, Times(L.section_gap, 5))
        g1 == IF mode # "NONE" /\ total_vat(its) > 0
              THEN draw_vat_lines(move(draw(g0, "subtotal", g0.y), L.line_height),
                                  L, vat_summary(its))
              ELSE g0
    IN  move(draw(g1, "total", g1.y), L.section_gap)

RECURSIVE render_note_lines(_, _, _)
render_note_lines(g, L, n) ==
    IF n = 0 THEN g
    ELSE LET g1 == IF page_break_needed(g, L) THEN start_new_page(g, L) ELSE g
         IN  render_note_lines(move(draw(g1, "note", g1.y), Times(L.line_height, 8)),
                               L, n - 1)

RECURSIVE render_notes(_, _, _)
render_notes(g, L, ns) ==
    IF ns = <<>> THEN g
    ELSE render_notes(move(render_note_lines(g, L, Len(wrap(ns[1], 90))),
                           Times(L.line_height, 5)),
                      L, Tail(ns))

render_payment_info(g, L, pay, mode) ==
    LET line_gap == Times(L.line_height, 12)
        g0 == IF g.y < L.page_break_threshold + 300 THEN start_new_page(g, L) ELSE g
        g1 == move(g0, 3 * L.section_gap)
        g2 == IF mode = "NONE"
              THEN move(draw(g1, "vat_note", g1.y), L.section_gap) ELSE g1
        g3 == move(draw(g2, "payment_terms", g2.y), line_gap)
        g4 == move(draw(g3, "due_date", g3.y), line_gap)
        g5 == IF pay.account_holder # <<>>
              THEN move(draw(g4, "account_holder", g4.y), line_gap) ELSE g4
        g6 == IF pay.iban # <<>> THEN move(draw(g5, "iban", g5.y), line_gap) ELSE g5
        g7 == IF pay.bic # <<>> THEN move(draw(g6, "bic", g6.y), line_gap) ELSE g6
        g8 == IF pay.bank_name # <<>> THEN draw(g7, "bank_name", g7.y) ELSE g7
    IN  IF pay.payment_reference # <<>>
        THEN LET g9 == move(g8, line_gap) IN draw(g9, "payment_reference", g9.y)
        ELSE g8

(***************************************************************************)
(* Invoice.validate(): the warnings of the parts, then those of the items, *)
(* then the warning of an empty item list.  A warning is its text and the  *)
(* description it quotes.                                                  *)
(***************************************************************************)
Warning(text, about) == [text |-> text, about |-> about]

issuer_validate(iss) ==
    IF iss.address.name = <<>> THEN <<Warning("Aussteller: Name fehlt", <<>>)>> ELSE <<>>

client_validate(cl) ==
    IF cl.address.name = <<>> THEN <<Warning("Kunde: Name fehlt", <<>>)>> ELSE <<>>

metadata_validate(meta) ==
    IF meta.number = <<>> THEN <<Warning("Rechnung: Nummer fehlt", <<>>)>> ELSE <<>>

payment_validate(pay) ==
    IF pay.iban = <<>> THEN <<Warning("Zahlung: IBAN fehlt", <<>>)>> ELSE <<>>

item_validate(item) ==
    (IF strip(item.description) = <<>>
     THEN <<Warning("Position: Beschreibung fehlt", <<>>)>> ELSE <<>>)
    \o (IF item.quantity <= 0
        THEN <<Warning("Menge muss positiv sein", item.description)>> ELSE <<>>)
    \o (IF item.unit_price < 0
        THEN <<Warning("Preis darf nicht negativ sein", item.description)>> ELSE <<>>)

RECURSIVE items_validate(_)
items_validate(its) ==
    IF its = <<>> THEN <<>> ELSE item_validate(its[1]) \o items_validate(Tail(its))

NoItemsWarning == Warning("Rechnung: Keine Positionen vorhanden", <<>>)

validate(iss, cl, meta, pay, its) ==
    issuer_validate(iss) \o client_validate(cl) \o metadata_validate(meta)
        \o payment_validate(pay) \o items_validate(its)
        \o (IF its = <<>> THEN <<NoItemsWarning>> ELSE <<>>)

(***************************************************************************)
(* generate(): the invoices and layouts it is run on, and its stages.      *)
(***************************************************************************)
Layouts ==
    {DefaultLayout,
     [DefaultLayout EXCEPT !.description_wrap_width = 3, !.table_row_height = 400],
     [DefaultLayout EXCEPT !.description_wrap_width = 3, !.table_row_height = 400,
                           !.page_break_threshold = 1600]}

TableItemPool ==
    {InvoiceItem(<<>>, 5, 100, 0),
     InvoiceItem(<<"a", "b", " ", "c", "d">>, 15, 3, 19),
     InvoiceItem(<<"a", "b", "c", "d", "e", "f", "g">>, 5, 1, 5)}

SomeAddress == [name |-> <<"N">>, street |-> <<"S">>, postal_code |-> <<"1">>, city |-> <<"C">>,
                country |-> <<>>, additional_lines |-> <<>>]

Issuers ==
    {NoIssuer,
     [address |-> SomeAddress, phone |-> <<"p">>, email |-> <<"e">>,
      website |-> <<>>, tax_number |-> <<"t">>, vat_id |-> <<>>]}

Clients == {NoClient, [address |-> SomeAddress]}

NotesPool == {<<>>, << <<"n">> >>}

Payments ==
    {NoPayment,
     [account_holder |-> <<"h">>, iban |-> <<"i">>, bic |-> <<"b">>,
      bank_name |-> <<"k">>, payment_reference |-> <<"r">>]}

InitLayout ==
    /\ pc = "input"
    /\ items \in SeqsUpTo(TableItemPool, MaxTableItems)
    /\ vat_mode \in VATMode
    /\ shown = NoTotals
    /\ language = "DE"
    /\ FormatIdle
    /\ AddressIdle
    /\ WrapIdle
    /\ layout \in Layouts
    /\ issuer \in Issuers
    /\ client \in Clients
    /\ notes \in NotesPool
    /\ payment \in Payments
    /\ metadata = NoMetadata
    /\ logo = "none"
    /\ gen = NewGenerator
    /\ item_ix = 1
    /\ line_ix = 1
    /\ first_line = TRUE
    /\ warnings = <<>>
    /\ calls_left = 1
    /\ ParseIdle
    /\ ServerIdle

Stage(from, to, g) ==
    /\ pc = from
    /\ pc' = to
    /\ gen' = g
    /\ UNCHANGED <<moneyVars, language, fmtVars, addrVars, wrapVars, invoiceVars,
                   parseVars, serverVars>>

after_validation_raises(ws) == IF ws # <<>> THEN "failed" ELSE "header"

(* the warnings are printed, nothing else: the header stage is next *)
after_validation(ws) == "header"

(* generate() validates, logs the warnings and goes on; it takes a new
   canvas and leaves the other fields of the instance as they are *)
StartGenerate ==
    /\ pc \in {"input", "done"}
    /\ calls_left > 0
    /\ warnings' = validate(issuer, client, metadata, payment, items)
    /\ pc' = after_validation(warnings')
    /\ gen' = start_new_page([gen EXCEPT !.canvas = <<>>], layout)
    /\ calls_left' = calls_left - 1
    /\ UNCHANGED <<moneyVars, language, fmtVars, addrVars, wrapVars, invoiceVars,
                   loopVars, parseVars, serverVars>>

RenderHeader ==
    /\ Stage("header", "invoice_info", render_header(gen, layout, issuer, logo))
    /\ UNCHANGED <<loopVars, runVars>>

RenderInvoiceInfo ==
    /\ Stage("invoice_info", "client_info", render_invoice_info(gen, layout))
    /\ UNCHANGED <<loopVars, runVars>>

RenderClientInfo ==
    /\ Stage("client_info", "items_table", render_client_info(gen, layout, client))
    /\ UNCHANGED <<loopVars, runVars>>

RenderItemsTable ==
    /\ LET g1 == move(gen, layout.section_gap)
       IN  Stage("items_table", "items",
                 render_table_header([g1 EXCEPT !.table_top_y = g1.y]))
    /\ item_ix' = 1
    /\ line_ix' = 1
    /\ first_line' = TRUE
    /\ UNCHANGED runVars

RenderTableItemLine ==
    /\ item_ix <= Len(items)
    /\ LET n == Len(wrapped(items[item_ix].description, layout.description_wrap_width))
           g1 == render_table_item_line(gen, layout, item_ix, line_ix, first_line)
       IN  IF line_ix < n
           THEN /\ Stage("items", "items", g1)
                /\ line_ix' = line_ix + 1
                /\ first_line' = FALSE
                /\ item_ix' = item_ix
           ELSE /\ Stage("items", "items", [g1 EXCEPT !.table_bottom_y = g1.y])
                /\ line_ix' = 1
                /\ first_line' = TRUE
                /\ item_ix' = item_ix + 1
    /\ UNCHANGED runVars

FinishItemsTable ==
    /\ item_ix > Len(items)
    /\ Stage("items", "totals", draw_table_lines(gen))
    /\ UNCHANGED <<loopVars, runVars>>

RenderTotals ==
    /\ Stage("totals", "notes", render_totals(gen, layout, items, vat_mode))
    /\ UNCHANGED <<loopVars, runVars>>

RenderNotes ==
    /\ Stage("notes", "payment", render_notes(gen, layout, notes))
    /\ UNCHANGED <<loopVars, runVars>>

RenderPaymentInfo ==
    /\ Stage("payment", "save", render_payment_info(gen, layout, payment, vat_mode))
    /\ UNCHANGED <<loopVars, runVars>>

Save ==
    /\ Stage("save", "done", draw(gen, "save", 0))
    /\ UNCHANGED <<loopVars, runVars>>

NextLayout ==
    \/ StartGenerate
    \/ RenderHeader
    \/ RenderInvoiceInfo
    \/ RenderClientInfo
    \/ RenderItemsTable
    \/ RenderTableItemLine
    \/ FinishItemsTable
    \/ RenderTotals
    \/ RenderNotes
    \/ RenderPaymentInfo
    \/ Save

SpecLayout == InitLayout /\ [][NextLayout]_vars

Canvas == gen.canvas

NewCommands == SubSeq(gen'.canvas, Len(gen.canvas) + 1, Len(gen'.canvas))

(* a step that renders one wrapped line of an item *)
ItemLineStep == pc = "items" /\ item_ix <= Len(items) /\ gen' # gen

(* the step first finalizes the table lines, starts a new page and renders
   the table header again, and only then draws the line *)
BreaksPageFirst ==
    /\ gen'.page_number = gen.page_number + 1
    /\ Len(NewCommands) >= 7
    /\ NewCommands[1].kind = "vlines" /\ NewCommands[1].page = gen.page_number
    /\ NewCommands[2].kind = "showPage"
    /\ NewCommands[3].kind = "page_number"
    /\ NewCommands[4].kind = "table_header"
    /\ NewCommands[7].kind = "desc" /\ NewCommands[7].page = gen'.page_number

(* the step draws the line at the cursor, on the current page *)
DrawsInPlace ==
    /\ gen'.page_number = gen.page_number
    /\ NewCommands[1].kind = "desc"
    /\ NewCommands[1].y = gen.y

(* C6, as stated: before a wrapped line of an item is drawn, the page is
   broken exactly when the cursor y minus the bottom margin is below the
   page-break threshold. *)
C6_BreakWhenSpaceAboveMarginIsShort ==
    [][ItemLineStep =>
          IF gen.y - layout.margin_bottom < layout.page_break_threshold
          THEN BreaksPageFirst ELSE DrawsInPlace]_vars

(* C6, amended: before a wrapped line of an item is drawn, the page is
   broken (table lines finalized, new page started, table header rendered
   again) exactly when the cursor y itself, the bottom margin not
   subtracted, is below the page-break threshold. *)
C6_BreakWhenCursorBelowThreshold ==
    [][ItemLineStep =>
          IF gen.y < layout.page_break_threshold
          THEN BreaksPageFirst ELSE DrawsInPlace]_vars

C6_Witness ==
    LET n == Len(Canvas)
    IN  /\ pc = "items"
        /\ n > 10
        /\ Canvas[n].kind = "amount" /\ Canvas[n].page = 2
        /\ Canvas[n - 3].kind = "desc" /\ Canvas[n - 3].page = 2
        /\ Canvas[n - 6].kind = "table_header" /\ Canvas[n - 6].page = 2
        /\ Canvas[n - 8].kind = "showPage"
        /\ Canvas[n - 9].kind = "vlines" /\ Canvas[n - 9].page = 1
        /\ \E k \in 1..n :
              /\ Canvas[k].kind = "desc" /\ Canvas[k].page = 1
              /\ Canvas[k].y >= layout.page_break_threshold
              /\ Canvas[k].y - layout.margin_bottom < layout.page_break_threshold

RECURSIVE TotalWrappedLines(_, _)
TotalWrappedLines(its, width) ==
    IF its = <<>> THEN 0
    ELSE Len(wrapped(its[1].description, width)) + TotalWrappedLines(Tail(its), width)

(* the rows that fit on the first page: the first row is 9 mm below the
   header labels, the next ones one row height further down each, as long
   as they are not below the page-break threshold *)
FirstPageRows ==
    LET h == CHOOSE k \in 1..Len(Canvas) :
                 Canvas[k].kind = "table_header" /\ Canvas[k].page = 1
        first == Canvas[h].y - 90
    IN  Cardinality({r \in 0..(PageHeight \div layout.table_row_height) :
                        first - r * layout.table_row_height
                            >= layout.page_break_threshold})

(* C7: on every page that holds an item row the table header is rendered
   before the first item row of the page; and when the items have more
   wrapped lines than rows fit on the first page, the document has more
   than one page. *)
C7_HeaderOnEveryTablePage ==
    /\ \A k \in 1..Len(Canvas) :
          Canvas[k].kind = "desc" =>
              \E h \in 1..(k - 1) :
                  /\ Canvas[h].kind = "table_header"
                  /\ Canvas[h].page = Canvas[k].page
                  /\ Canvas[h].y > Canvas[k].y
    /\ (pc = "done"
          /\ TotalWrappedLines(items, layout.description_wrap_width) > FirstPageRows)
          => gen.page_number > 1

C7_Witness ==
    /\ pc = "done"
    /\ TotalWrappedLines(items, layout.description_wrap_width) > FirstPageRows
    /\ FirstPageRows > 0
    /\ \E p \in 3..gen.page_number :
          \E k \in 1..Len(Canvas) : Canvas[k].kind = "desc" /\ Canvas[k].page = p

ItemsRendered == IF pc = "items" THEN item_ix - 1
                 ELSE IF pc \in {"totals", "notes", "payment", "save", "done"}
                      THEN Len(items) ELSE 0

CommandsOf(kind, i) ==
    {k \in 1..Len(Canvas) : Canvas[k].kind = kind /\ Canvas[k].item = i}

(* C8: the quantity, the unit price and the net amount of an item are each
   drawn exactly once, on the page and at the y of the item's first
   description line, and on no later line of the item. *)
C8_NumbersOnFirstLineOnly ==
    \A i \in 1..ItemsRendered :
        \A kind \in {"qty", "price", "amount"} :
            /\ Cardinality(CommandsOf(kind, i)) = 1
            /\ \A k \in CommandsOf(kind, i) :
                  /\ \E d \in CommandsOf("desc", i) :
                        /\ Canvas[d].line = 1
                        /\ Canvas[d].page = Canvas[k].page
                        /\ Canvas[d].y = Canvas[k].y
                        /\ d < k
                  /\ \A d \in CommandsOf("desc", i) :
                        Canvas[d].line > 1 =>
                            /\ k < d
                            /\ ~(Canvas[d].page = Canvas[k].page
                                    /\ Canvas[d].y = Canvas[k].y)

C8_Witness ==
    /\ pc = "done"
    /\ \E i \in 1..Len(items) :
          /\ Cardinality(CommandsOf("desc", i)) = 3
          /\ \E d1, d2 \in CommandsOf("desc", i) :
                /\ Canvas[d1].line = 1
                /\ Canvas[d2].line = 2
                /\ Canvas[d2].page = Canvas[d1].page + 1
                /\ \E k \in CommandsOf("amount", i) : Canvas[k].page = Canvas[d1].page

(***************************************************************************)
(* Validation and generation.                                              *)
(***************************************************************************)
KindsDrawn == {Canvas[k].kind : k \in 1..Len(Canvas)}

StageKinds == {"issuer_name", "title", "bill_to", "table_header", "total",
               "payment_terms", "save"}

ValidationReport ==
    pc # "input" =>
        /\ (NoItemsWarning \in Range(warnings)) <=> (items = <<>>)
        /\ \E ws \in {<<>>, <<NoItemsWarning>>} :
              warnings = issuer_validate(issuer) \o client_validate(client)
                            \o metadata_validate(metadata)
                            \o payment_validate(payment)
                            \o items_validate(items) \o ws

GeneratedInFull ==
    pc = "done" =>
        /\ StageKinds \subseteq KindsDrawn
        /\ Canvas[Len(Canvas)].kind = "save"
        /\ items = <<>> => "desc" \notin KindsDrawn

RenderStages == {"header", "invoice_info", "client_info", "items_table", "items",
                 "totals", "notes", "payment", "save"}

(* C11: whatever Invoice.validate() returns (the warnings of issuer,
   client, metadata and payment, then those of the items, and the 'no
   items' warning exactly when the item list is empty), a generate() that
   has validated is in its render stages or done, never stopped; when done
   it has run every render stage and saved the document, and an invoice
   without items then has a table header and no item row. *)
C11_ValidationNeverPreventsGeneration ==
    /\ ValidationReport
    /\ pc # "input" => pc \in RenderStages \cup {"done"}
    /\ GeneratedInFull

C11_Witness ==
    /\ pc = "done"
    /\ items = <<>>
    /\ Len(warnings) >= 4
    /\ warnings[Len(warnings)] = NoItemsWarning
    /\ "table_header" \in KindsDrawn
    /\ Canvas[Len(Canvas)].kind = "save"

(***************************************************************************)
(* Building an item from caller input: InvoiceItem.from_dict with          *)
(* _to_decimal, and the item loop of the web handler.  The caller's values *)
(* are strings; a missing or empty value is << >>.                         *)
(***************************************************************************)
MaxNumLen == 3

NumChars == {"0", "1", ".", ",", "x"}

NumStrings == SeqsUpTo(NumChars, MaxNumLen)

is_digit(c) == c \in {"0", "1", "2", "3", "4", "5", "6", "7", "8", "9"}

RECURSIVE int_of(_)
int_of(digits) ==
    IF digits = <<>> THEN 0
    ELSE 10 * int_of(SubSeq(digits, 1, Len(digits) - 1))
           + (CHOOSE v \in 0..9 : DigitChars[v + 1] = digits[Len(digits)])

(* Decimal(str): digits with at most one '.', at least one digit *)
decimal_accepts(s) ==
    /\ \A i \in 1..Len(s) : is_digit(s[i]) \/ s[i] = "."
    /\ Cardinality({i \in 1..Len(s) : s[i] = "."}) <= 1
    /\ \E i \in 1..Len(s) : is_digit(s[i])

decimal_of(s) ==
    LET dot == {i \in 1..Len(s) : s[i] = "."}
        digits == SelectSeq(s, is_digit)
    IN  Dec(int_of(digits),
            IF dot = {} THEN 0 ELSE Len(s) - (CHOOSE i \in dot : TRUE))

(* _to_decimal: what Decimal() rejects becomes the default *)
to_decimal(value, default) ==
    LET cleaned == replace(value, ",", ".")
    IN  IF decimal_accepts(cleaned) THEN decimal_of(cleaned) ELSE default

from_dict(data) ==
    [outcome |-> "item",
     quantity |-> to_decimal(data.quantity, Dec(0, 0)),
     unit_price |-> to_decimal(data.unit_price, Dec(0, 0))]

(* the handler's loop body: a position with an empty field is skipped, a
   Decimal() that raises ends the request with the error response *)
parse_position(pos) ==
    IF pos.description # <<>> /\ pos.quantity # <<>> /\ pos.unit_price # <<>>
    THEN LET q == replace(pos.quantity, ",", ".")
             p == replace(pos.unit_price, ",", ".")
         IN  IF decimal_accepts(q) /\ decimal_accepts(p)
             THEN [outcome |-> "item", quantity |-> decimal_of(q),
                   unit_price |-> decimal_of(p)]
             ELSE [outcome |-> "error", quantity |-> Dec(0, 0),
                   unit_price |-> Dec(0, 0)]
    ELSE [outcome |-> "dropped", quantity |-> Dec(0, 0), unit_price |-> Dec(0, 0)]

PricePool == {<<>>, <<"x">>, <<"1">>, <<"1", ",", "0">>}

InitParse ==
    /\ pc = "input"
    /\ MoneyIdle
    /\ language = "DE"
    /\ FormatIdle
    /\ AddressIdle
    /\ WrapIdle
    /\ layout = DefaultLayout
    /\ issuer = NoIssuer
    /\ client = NoClient
    /\ notes = <<>>
    /\ payment = NoPayment
    /\ metadata = NoMetadata
    /\ logo = "none"
    /\ gen = NewGenerator
    /\ item_ix = 1
    /\ line_ix = 1
    /\ first_line = TRUE
    /\ warnings = <<>>
    /\ calls_left = 0
    /\ position \in [description : {<<>>, <<"a">>}, quantity : NumStrings,
                      unit_price : PricePool]
    /\ built = NotBuilt
    /\ ServerIdle

FromDict ==
    /\ pc = "input"
    /\ pc' = "done"
    /\ built' = from_dict(position)
    /\ UNCHANGED <<moneyVars, language, fmtVars, addrVars, wrapVars, layoutVars,
                   position, serverVars>>

ParsePosition ==
    /\ pc = "input"
    /\ pc' = "done"
    /\ built' = parse_position(position)
    /\ UNCHANGED <<moneyVars, language, fmtVars, addrVars, wrapVars, layoutVars,
                   position, serverVars>>

NextParse == FromDict \/ ParsePosition

SpecParse == InitParse /\ [][NextParse]_vars

(* a decimal number: digits, and at most one '.' or ',' among them *)
WellFormedDecimal(s) ==
    /\ \A i \in 1..Len(s) : s[i] \in {"0", "1", ".", ","}
    /\ Cardinality({i \in 1..Len(s) : s[i] \in {".", ","}}) <= 1
    /\ \E i \in 1..Len(s) : s[i] \in {"0", "1"}

(* C12: a position whose quantity or unit price is not a well-formed
   decimal makes the construction fail with an error: no item is built from
   it (with zero or any other value in its place) and it is not dropped. *)
C12_MalformedNumberFails ==
    (pc = "done"
       /\ ~(WellFormedDecimal(position.quantity)
              /\ WellFormedDecimal(position.unit_price)))
        => built.outcome = "error"

(***************************************************************************)
(* generate() on invoices that differ in logo and issuer block.            *)
(***************************************************************************)
MaxHeaderItems == 1

ManyLines == [i \in 1..10 |-> <<"x">>]

LongIssuer ==
    [address |-> [SomeAddress EXCEPT !.additional_lines = ManyLines],
     phone |-> <<"p">>, email |-> <<"e">>, website |-> <<"w">>,
     tax_number |-> <<"t">>, vat_id |-> <<"v">>]

Numbered == [NoMetadata EXCEPT !.number = <<"7">>]

InitHeader ==
    /\ pc = "input"
    /\ items \in SeqsUpTo(TableItemPool, MaxHeaderItems)
    /\ vat_mode \in VATMode
    /\ shown = NoTotals
    /\ language = "DE"
    /\ FormatIdle
    /\ AddressIdle
    /\ WrapIdle
    /\ layout \in Layouts
    /\ issuer \in Issuers \cup {LongIssuer}
    /\ client \in Clients
    /\ metadata \in {NoMetadata, Numbered}
    /\ logo \in Logos
    /\ notes = <<>>
    /\ payment \in Payments
    /\ gen = NewGenerator
    /\ item_ix = 1
    /\ line_ix = 1
    /\ first_line = TRUE
    /\ warnings = <<>>
    /\ calls_left = 1
    /\ ParseIdle
    /\ ServerIdle

SpecHeader == InitHeader /\ [][NextLayout]_vars

HeaderDone == pc \notin {"input", "header"}

IssuerBlockLines ==
    Len(to_lines(issuer.address))
      + Cardinality({f \in {"phone", "email", "website", "tax_number", "vat_id"} :
                       issuer[f] # <<>>})

CountOf(kind) == Cardinality({k \in 1..Len(Canvas) : Canvas[k].kind = kind})

(* C13: with a logo that is missing or cannot be loaded or drawn, the
   header stage draws no logo, draws the issuer name and every issuer
   line, and leaves the cursor where it leaves it for an invoice without
   logo (logo height and half a section gap below the top); generate() then
   goes through the later stages and saves. *)
C13_LogoFailureDoesNotAbort ==
    (HeaderDone /\ logo \in {"missing", "unreadable"}) =>
        /\ CountOf("logo") = 0
        /\ CountOf("issuer_name") = 1
        /\ CountOf("issuer_line") = IssuerBlockLines
        /\ pc = "invoice_info" =>
              gen.y = PageHeight - layout.margin_top
                        - (layout.logo_height + layout.section_gap \div 2)
        /\ pc \in RenderStages \cup {"done"}
        /\ pc = "done" =>
              StageKinds \subseteq KindsDrawn /\ Canvas[Len(Canvas)].kind = "save"

C13_Witness ==
    /\ pc = "done"
    /\ logo = "unreadable"
    /\ CountOf("logo") = 0
    /\ CountOf("issuer_line") = 5
    /\ Canvas[Len(Canvas)].kind = "save"

(***************************************************************************)
(* The /generate handler from "PDF generieren" on, for requests served     *)
(* at the same time.  The path of the temporary file is                    *)
(* /tmp/rechnung_<now, to the second>.pdf: a path is the second it names.  *)
(* Canvas.save() writes the file; the handler reads it back into the       *)
(* response and removes it.  An exception ends the request with the error  *)
(* response.                                                               *)
(***************************************************************************)
NumRequests == 2
MaxClock == 2

Request(at, path, delivered) == [pc |-> at, path |-> path, delivered |-> delivered]

FileAt(path) == {f \in files : f.path = path}

InitServer ==
    /\ pc = "input"
    /\ MoneyIdle
    /\ language = "DE"
    /\ FormatIdle
    /\ AddressIdle
    /\ WrapIdle
    /\ layout = DefaultLayout
    /\ issuer = NoIssuer
    /\ client = NoClient
    /\ notes = <<>>
    /\ payment = NoPayment
    /\ metadata = NoMetadata
    /\ logo = "none"
    /\ gen = NewGenerator
    /\ item_ix = 1
    /\ line_ix = 1
    /\ first_line = TRUE
    /\ warnings = <<>>
    /\ calls_left = 0
    /\ ParseIdle
    /\ now = 1
    /\ files = {}
    /\ requests = [r \in 1..NumRequests |-> Request("start", 0, 0)]

ServerStep ==
    UNCHANGED <<pc, moneyVars, language, fmtVars, addrVars, wrapVars, layoutVars,
                parseVars>>

(* temp_path = f"/tmp/rechnung_{datetime.now().strftime(...)}.pdf" *)
NamePath(r) ==
    /\ requests[r].pc = "start"
    /\ requests' = [requests EXCEPT ![r] = Request("named", now, 0)]
    /\ UNCHANGED <<now, files>>
    /\ ServerStep

(* generator.generate(temp_path): the document of request r is at the path *)
Generate(r) ==
    /\ requests[r].pc = "named"
    /\ files' = (files \ FileAt(requests[r].path))
                    \cup {[path |-> requests[r].path, content |-> r]}
    /\ requests' = [requests EXCEPT ![r].pc = "generated"]
    /\ UNCHANGED now
    /\ ServerStep

(* with open(temp_path, "rb") as f: pdf_buffer.write(f.read()) *)
ReadBack(r) ==
    /\ requests[r].pc = "generated"
    /\ requests' =
          IF FileAt(requests[r].path) = {}
          THEN [requests EXCEPT ![r].pc = "failed"]
          ELSE [requests EXCEPT
                  ![r].pc = "read",
                  ![r].delivered = (CHOOSE f \in FileAt(requests[r].path) : TRUE).content]
    /\ UNCHANGED <<now, files>>
    /\ ServerStep

(* os.remove(temp_path), then send_file(pdf_buffer) *)
Remove(r) ==
    /\ requests[r].pc = "read"
    /\ requests' = [requests EXCEPT
                      ![r].pc = IF FileAt(requests[r].path) = {}
                                THEN "failed" ELSE "sent"]
    /\ files' = files \ FileAt(requests[r].path)
    /\ UNCHANGED now
    /\ ServerStep

Tick ==
    /\ now < MaxClock
    /\ now' = now + 1
    /\ UNCHANGED <<files, requests>>
    /\ ServerStep

NextServer ==
    \/ \E r \in 1..NumRequests : NamePath(r)
    \/ \E r \in 1..NumRequests : Generate(r)
    \/ \E r \in 1..NumRequests : ReadBack(r)
    \/ \E r \in 1..NumRequests : Remove(r)
    \/ Tick

SpecServer == InitServer /\ [][NextServer]_vars

(* C14: requests served at the same time are independent: none ends with
   an error, the document a request delivers is the one of its own invoice,
   and from the moment a request has generated its document until it has
   read it, the file at its path holds its own document. *)
C14_ConcurrentRequestsIndependent ==
    \A r \in 1..NumRequests :
        /\ requests[r].pc # "failed"
        /\ requests[r].pc \in {"read", "sent"} => requests[r].delivered = r
        /\ requests[r].pc = "generated" =>
              FileAt(requests[r].path) = {[path |-> requests[r].path, content |-> r]}

(***************************************************************************)
(* The totals block.                                                       *)
(***************************************************************************)
TotalsDone == pc \in {"notes", "payment", "save", "done"}

IsVatLine(c) == c.kind = "vat"

VatLines == SelectSeq(Canvas, IsVatLine)

RECURSIVE RatesAsEncountered(_)
(* the VAT rates above 0 of the items, each once, where it first occurs *)
RatesAsEncountered(its) ==
    IF its = <<>> THEN <<>>
    ELSE LET before == RatesAsEncountered(SubSeq(its, 1, Len(its) - 1))
             rate == its[Len(its)].vat_rate
         IN  IF rate > 0 /\ rate \notin Range(before)
             THEN Append(before, rate) ELSE before

TotalsLines == {k \in 1..Len(Canvas) : Canvas[k].kind \in {"subtotal", "vat"}}

(* C15: the subtotal line and the VAT lines are drawn exactly when the VAT
   mode is not NONE and the total VAT is above 0; then there is one
   subtotal line and one VAT line per distinct rate above 0, in the order
   in which the rates first occur among the items, each below the one
   before; the grand total line is always drawn exactly once, after and
   below all of them. *)
C15_TotalsLines ==
    TotalsDone =>
        /\ IF vat_mode # "NONE" /\ SumSeq([i \in 1..Len(items) |-> vat_amount(items[i])]) > 0
           THEN /\ CountOf("subtotal") = 1
                /\ [k \in 1..Len(VatLines) |-> VatLines[k].item]
                      = RatesAsEncountered(items)
                /\ \A k \in 1..Len(VatLines) :
                      /\ k > 1 => VatLines[k].y < VatLines[k - 1].y
                      /\ \A c \in TotalsLines :
                            Canvas[c].kind = "subtotal" => VatLines[k].y < Canvas[c].y
           ELSE TotalsLines = {}
        /\ CountOf("total") = 1
        /\ \A t \in 1..Len(Canvas) :
              Canvas[t].kind = "total" =>
                  \A c \in TotalsLines :
                      c < t /\ Canvas[t].y < Canvas[c].y /\ Canvas[t].page = Canvas[c].page

C15_Witness ==
    /\ TotalsDone
    /\ Len(items) = 3
    /\ Len(VatLines) = 2
    /\ VatLines[1].item = 19
    /\ VatLines[2].item = 5
    /\ items[1].vat_rate = 19 /\ items[2].vat_rate = 5 /\ items[3].vat_rate = 19
    /\ CountOf("total") = 1

(***************************************************************************)
(* generate() on invoices with every combination of payment fields, called *)
(* once or more on the same generator.                                     *)
(***************************************************************************)
MaxFooterItems == 1
MaxCalls == 2

AllPayments ==
    [account_holder : {<<>>, <<"h">>}, iban : {<<>>, <<"i">>}, bic : {<<>>, <<"b">>},
     bank_name : {<<>>, <<"k">>}, payment_reference : {<<>>, <<"r">>}]

InitFooter ==
    /\ pc = "input"
    /\ items \in SeqsUpTo(TableItemPool, MaxFooterItems)
    /\ vat_mode \in VATMode
    /\ shown = NoTotals
    /\ language = "DE"
    /\ FormatIdle
    /\ AddressIdle
    /\ WrapIdle
    /\ layout \in Layouts
    /\ issuer \in Issuers
    /\ client = NoClient
    /\ metadata = NoMetadata
    /\ logo = "none"
    /\ notes = <<>>
    /\ payment \in AllPayments
    /\ gen = NewGenerator
    /\ item_ix = 1
    /\ line_ix = 1
    /\ first_line = TRUE
    /\ warnings = <<>>
    /\ calls_left \in 1..MaxCalls
    /\ ParseIdle
    /\ ServerIdle

SpecFooter == InitFooter /\ [][NextLayout]_vars

FooterKinds == <<"payment_terms", "due_date", "account_holder", "iban", "bic",
                 "bank_name", "payment_reference">>

IsFooterLine(c) == c.kind \in Range(FooterKinds)

FooterLines == SelectSeq(Canvas, IsFooterLine)

IsDueFooterKind(kind) ==
    kind \in {"payment_terms", "due_date"} \/ payment[kind] # <<>>

(* C16: the payment footer draws payment terms, due date and then the
   non-empty ones among account holder, IBAN, BIC, bank name and payment
   reference, in this order and no others; each drawn line is below the
   line drawn before it, by the same line gap (1.2 line heights) whichever
   fields are empty. *)
C16_FooterLinesEvenlySpaced ==
    pc \in {"save", "done"} =>
        /\ [k \in 1..Len(FooterLines) |-> FooterLines[k].kind]
              = SelectSeq(FooterKinds, IsDueFooterKind)
        /\ \A k \in 2..Len(FooterLines) :
              /\ FooterLines[k].page = FooterLines[k - 1].page
              /\ FooterLines[k].y
                    = FooterLines[k - 1].y - (layout.line_height * 12) \div 10

(***************************************************************************)
(* Page numbering.                                                         *)
(***************************************************************************)
PagesOfDocument == CountOf("showPage") + 1

(* C20: in every generate() call, a second one on the same generator
   included, the first page has index 1, no footer and no page commit
   before it; the index grows by 1 at each page start, every later page k
   has the footer with number k; the pages of the document are as many as
   the final page index. *)
C20_PageIndexPerDocument ==
    pc # "input" =>
        /\ gen.page_number = PagesOfDocument
        /\ \A k \in 1..Len(Canvas) :
              /\ Canvas[k].page \in 1..PagesOfDocument
              /\ k = 1 => Canvas[k].kind # "showPage" /\ Canvas[k].page = 1
              /\ Canvas[k].kind = "showPage" =>
                    /\ k < Len(Canvas)
                    /\ Canvas[k + 1].kind = "page_number"
                    /\ Canvas[k + 1].page = Canvas[k].page + 1
              /\ Canvas[k].kind = "page_number" =>
                    /\ Canvas[k].page >= 2
                    /\ k > 1 /\ Canvas[k - 1].kind = "showPage"

(***************************************************************************)
(* The header block and the cursor after it.                               *)
(***************************************************************************)
IssuerBlock == {k \in 1..Len(Canvas) : Canvas[k].kind \in {"issuer_name", "issuer_line"}}

(* C17: after the header stage the cursor is below the logo band and below
   the lowest line of the issuer block, however many address lines and
   contact fields the issuer has; so the invoice title is drawn below
   every issuer line. *)
C17_CursorBelowHeaderBlock ==
    /\ pc = "invoice_info" =>
          /\ gen.y <= PageHeight - layout.margin_top - layout.logo_height
          /\ \A k \in IssuerBlock : gen.y < Canvas[k].y
    /\ \A t \in 1..Len(Canvas) :
          Canvas[t].kind = "title" =>
              \A k \in IssuerBlock :
                  Canvas[k].page = Canvas[t].page => Canvas[t].y < Canvas[k].y

(***************************************************************************)
(* InvoiceMetadata: the constructor arguments, then __post_init__.  A date *)
(* is a day number from 1 on; None is 0.                                   *)
(***************************************************************************)
MaxDay == 4

Dates == 1..MaxDay

(* due_days as the caller gives it; the handler passes int(data["due_days"]) *)
DueDays == {-5, 0, 14}

post_init(meta, today) ==
    LET date == IF meta.date = 0 THEN today ELSE meta.date
    IN  [meta EXCEPT !.date = date,
                     !.service_date = IF meta.service_date = 0 THEN date ELSE @]

due_date(meta) == meta.date + meta.due_days

InitMetadata ==
    /\ pc = "input"
    /\ MoneyIdle
    /\ language = "DE"
    /\ FormatIdle
    /\ AddressIdle
    /\ WrapIdle
    /\ layout = DefaultLayout
    /\ issuer = NoIssuer
    /\ client = NoClient
    /\ notes = <<>>
    /\ payment = NoPayment
    /\ metadata \in [number : {<<"7">>}, date : {0} \cup Dates,
                      service_date : {0} \cup Dates, due_days : DueDays]
    /\ logo = "none"
    /\ gen = NewGenerator
    /\ item_ix = 1
    /\ line_ix = 1
    /\ first_line = TRUE
    /\ warnings = <<>>
    /\ calls_left = 0
    /\ ParseIdle
    /\ ServerIdle

PostInit ==
    /\ pc = "input"
    /\ pc' = "done"
    /\ \E today \in Dates : metadata' = post_init(metadata, today)
    /\ UNCHANGED <<moneyVars, language, fmtVars, addrVars, wrapVars,
                   layout, issuer, client, logo, notes, payment,
                   gen, loopVars, runVars, parseVars, serverVars>>

NextMetadata == PostInit

SpecMetadata == InitMetadata /\ [][NextMetadata]_vars

(* C18: a constructed InvoiceMetadata has a due-day count that is not
   negative, so its due date (date + due days) is not before its date; and
   a service date that was not given equals the date. *)
C18_DueDateNotBeforeIssueDate ==
    [][(pc = "input" /\ pc' = "done") =>
          /\ metadata'.due_days >= 0
          /\ due_date(metadata') >= metadata'.date
          /\ metadata.service_date = 0 => metadata'.service_date = metadata'.date]_vars

(***************************************************************************)
(* The vertical column lines of the table body.                            *)
(***************************************************************************)
MinOf(S) == CHOOSE m \in S : \A n \in S : m <= n

(* the cursor when the lines at position k of the canvas were drawn: one
   row height below the last row of the page, or the first row's place
   (9 mm below the header labels) on a page without rows *)
CursorAtLines(k) ==
    LET h == CHOOSE i \in 1..k :
                 Canvas[i].kind = "table_header" /\ Canvas[i].page = Canvas[k].page
        row_ys == {Canvas[i].y : i \in {j \in 1..k : Canvas[j].kind = "desc"
                                            /\ Canvas[j].page = Canvas[k].page}}
    IN  IF row_ys = {} THEN Canvas[h].y - 90
        ELSE MinOf(row_ys) - layout.table_row_height

TableTopAtLines(k) ==
    LET h == CHOOSE i \in 1..k :
                 Canvas[i].kind = "table_header" /\ Canvas[i].page = Canvas[k].page
    IN  Canvas[h].y - 40

(* C19: whenever the vertical column lines of the table body are drawn (at
   a page break inside the table and after the last item, also for no
   items and for an item whose lines span a page break), their upper end
   is the table top of the current page (the rule under its header) and
   their lower end is the bottom of the last row drawn on this page, the
   cursor, give or take the 2 mm the lines overshoot; never a position
   from an earlier item, an earlier page or the initial 0. *)
C19_ColumnLinesSpanPageSegment ==
    \A k \in 1..Len(Canvas) :
        Canvas[k].kind = "vlines" =>
            /\ Canvas[k].y = TableTopAtLines(k)
            /\ Canvas[k].y2 \in {CursorAtLines(k), CursorAtLines(k) + 20}

(***************************************************************************)
(* Page breaks of one generate() call: invoices with several wrapped item  *)
(* lines and note lines, on layouts that break rarely, often, and before   *)
(* every line (a threshold above the top of the page).                     *)
(***************************************************************************)
MaxPagingItems == 2

PagingLayouts ==
    {DefaultLayout,
     [DefaultLayout EXCEPT !.description_wrap_width = 3, !.table_row_height = 400,
                           !.page_break_threshold = 1600],
     [DefaultLayout EXCEPT !.description_wrap_width = 3,
                           !.page_break_threshold = PageHeight + 30]}

(* no notes, one note, an empty note and a note, three notes of one line *)
PagingNotes ==
    {<<>>, << <<"n">> >>, << <<>>, <<"n">> >>,
     << <<"a", " ", "b">>, <<"n">>, <<"a", "b">> >>}

InitPaging ==
    /\ pc = "input"
    /\ items \in SeqsUpTo(TableItemPool, MaxPagingItems)
    /\ vat_mode \in VATMode
    /\ shown = NoTotals
    /\ language = "DE"
    /\ FormatIdle
    /\ AddressIdle
    /\ WrapIdle
    /\ layout \in PagingLayouts
    /\ issuer = NoIssuer
    /\ client = NoClient
    /\ metadata = NoMetadata
    /\ logo = "none"
    /\ notes \in PagingNotes
    /\ payment = NoPayment
    /\ gen = NewGenerator
    /\ item_ix = 1
    /\ line_ix = 1
    /\ first_line = TRUE
    /\ warnings = <<>>
    /\ calls_left \in 1..MaxCalls
    /\ ParseIdle
    /\ ServerIdle

SpecPaging == InitPaging /\ [][NextLayout]_vars

RECURSIVE NoteLines(_)
(* the wrapped lines of the notes; an empty note has none *)
NoteLines(ns) ==
    IF ns = <<>> THEN 0 ELSE Len(wrap(ns[1], 90)) + NoteLines(Tail(ns))

ItemLines == TotalWrappedLines(items, layout.description_wrap_width)

(* the wrapped item lines not rendered yet, in the table body *)
ItemLinesLeft ==
    TotalWrappedLines(SubSeq(items, item_ix, Len(items)), layout.description_wrap_width)
        - (line_ix - 1)

(* the steps from stage p to the end of the running call, with so many
   wrapped item lines drawn, and those of the calls still to come *)
Steps(p, calls, drawn) ==
    calls * (10 + ItemLines)
        + CASE p = "header"       -> 9 + ItemLines
            [] p = "invoice_info" -> 8 + ItemLines
            [] p = "client_info"  -> 7 + ItemLines
            [] p = "items_table"  -> 6 + ItemLines
            [] p = "items"        -> 5 + ItemLines - drawn
            [] p = "totals"       -> 4
            [] p = "notes"        -> 3
            [] p = "payment"      -> 2
            [] p = "save"         -> 1
            [] OTHER              -> 0

(* the pages the running call has started: on a generator used before the
   canvas begins with the page commit of the page before the first one *)
PagesStarted ==
    IF pc = "input" THEN 0
    ELSE IF Canvas = <<>> THEN 1
    ELSE IF Canvas[1].kind = "showPage" THEN gen.page_number - Canvas[1].page
    ELSE gen.page_number - Canvas[1].page + 1

NewKinds(kind) == SelectSeq(NewCommands, LAMBDA c : c.kind = kind)

(* C21: generate() terminates for every finite invoice and every layout,
   one whose page-break threshold is above the top of the page included:
   every step is one step closer to the end of the call; a step that
   renders a wrapped item line starts at most one page and then draws the
   line, on the page it ends on; the notes stage draws every wrapped note
   line and starts at most one page per line, the payment stage at most
   one, the other stages none; so the call starts at most 2 pages plus one
   per wrapped item line and wrapped note line. *)
C21_TerminatesWithBoundedPages ==
    [][/\ Steps(pc', calls_left', CountOf("desc")')
              = Steps(pc, calls_left, CountOf("desc")) - 1
       /\ Steps(pc', calls_left', CountOf("desc")') >= 0
       /\ pc = "items" => CountOf("desc") = ItemLines - ItemLinesLeft
       /\ PagesStarted' <= 2 + ItemLines + NoteLines(notes)
       /\ gen'.page_number - gen.page_number
              <= CASE pc \in {"input", "done"} -> 1
                   [] ItemLineStep            -> 1
                   [] pc = "notes"            -> NoteLines(notes)
                   [] pc = "payment"          -> 1
                   [] OTHER                   -> 0
       /\ gen'.page_number >= gen.page_number
       /\ ItemLineStep =>
             /\ Len(NewKinds("desc")) = 1
             /\ NewKinds("desc")[1].page = gen'.page_number
             /\ gen'.y = NewKinds("desc")[1].y - layout.table_row_height
       /\ pc = "notes" =>
             /\ Len(NewKinds("note")) = NoteLines(notes)
             /\ Len(NewKinds("showPage")) <= NoteLines(notes)]_vars

C21_Witness ==
    /\ pc = "done"
    /\ layout.page_break_threshold > PageHeight
    /\ ItemLines >= 3
    /\ NoteLines(notes) >= 3
    /\ gen.page_number = 2 + ItemLines + NoteLines(notes)
    /\ PagesStarted = gen.page_number

(***************************************************************************)
(* The default layout on invoices long enough to fill the first page:      *)
(* rows of one line each, with three VAT rates in turn.                    *)
(***************************************************************************)
MaxRows == 28

RowItems ==
    <<InvoiceItem(<<"a">>, 10, 100, 19),
      InvoiceItem(<<"b">>, 10, 100, 7),
      InvoiceItem(<<"c">>, 10, 100, 5)>>

RowsOf(n) == [i \in 1..n |-> RowItems[((i - 1) % 3) + 1]]

InitDefault ==
    /\ pc = "input"
    /\ items \in {RowsOf(n) : n \in 0..MaxRows}
    /\ vat_mode \in VATMode
    /\ shown = NoTotals
    /\ language = "DE"
    /\ FormatIdle
    /\ AddressIdle
    /\ WrapIdle
    /\ layout = DefaultLayout
    /\ issuer = NoIssuer
    /\ client \in Clients
    /\ metadata = NoMetadata
    /\ logo = "none"
    /\ notes \in NotesPool
    /\ payment \in Payments
    /\ gen = NewGenerator
    /\ item_ix = 1
    /\ line_ix = 1
    /\ first_line = TRUE
    /\ warnings = <<>>
    /\ calls_left = 1
    /\ ParseIdle
    /\ ServerIdle

SpecDefault == InitDefault /\ [][NextLayout]_vars

ContentKinds ==
    {"desc", "qty", "price", "amount", "subtotal", "vat", "total", "note",
     "vat_note", "payment_terms", "due_date", "account_holder", "iban", "bic",
     "bank_name", "payment_reference"}

(* C22: with the default layout no content text (item rows, totals lines,
   note lines, the no-VAT notice, payment lines) is drawn below the bottom
   margin, on any page and for any number of items, VAT rates, notes and
   payment fields; only the page-number footer is drawn inside the bottom
   margin. *)
C22_ContentAboveBottomMargin ==
    layout = DefaultLayout =>
        \A k \in 1..Len(Canvas) :
            /\ Canvas[k].kind \in ContentKinds => Canvas[k].y >= layout.margin_bottom
            /\ Canvas[k].y < layout.margin_bottom
                   => Canvas[k].kind \in {"page_number", "showPage", "save"}

====
